---- MODULE Spec2Model ----
(***************************************************************************)
(* Model of clickup-server/src/index.ts: an MCP server over stdio that     *)
(* exposes the tools list_tasks and create_task and forwards each call as  *)
(* one HTTP request to the ClickUp API.                                    *)
(*                                                                         *)
(* JavaScript values are tagged records, so that typeof, truthiness,       *)
(* optional chaining, template literals and JSON.stringify can be modelled *)
(* by what they do on each kind of value.                                  *)
(***************************************************************************)
EXTENDS Integers, Sequences, FiniteSets, TLC

\* Number of requests (list-tools or tool calls) the model lets the server handle.
MaxRequests == 2

---------------------------------------------------------------------------
\* JavaScript values

Undefined == [t |-> "undefined"]
Null == [t |-> "null"]
Str(s) == [t |-> "string", s |-> s]
\* the number i + f/10 (f = 0 for an integral number)
Num(i, f) == [t |-> "number", i |-> i, f |-> f]
Arr(a) == [t |-> "array", a |-> a]
\* an object: its keys in insertion order and the value of each key
Obj(k, m) == [t |-> "object", k |-> k, m |-> m]
EmptyObj == Obj(<<>>, <<>>)

\* typeof v
TypeOf(v) ==
  CASE v.t = "undefined" -> "undefined"
    [] v.t = "string" -> "string"
    [] v.t = "number" -> "number"
    [] OTHER -> "object"

\* Array.isArray(v)
IsArray(v) == v.t = "array"

\* the truthiness of v, as in `if (v)`, `!v` and `a || b`
Truthy(v) ==
  CASE v.t = "undefined" -> FALSE
    [] v.t = "null" -> FALSE
    [] v.t = "string" -> v.s # ""
    [] v.t = "number" -> ~(v.i = 0 /\ v.f = 0)
    [] OTHER -> TRUE

\* v?.key : undefined on undefined/null and on a value without that property
OptGet(v, key) ==
  IF v.t = "object" /\ (\E j \in 1..Len(v.k) : v.k[j] = key) THEN v.m[key] ELSE Undefined

\* the decimal text of a number
NumToString(v) ==
  IF v.f = 0 THEN ToString(v.i) ELSE ToString(v.i) \o "." \o ToString(v.f)

\* String(v) / `${v}` for the values that reach a template literal
ToJSString(v) ==
  CASE v.t = "string" -> v.s
    [] v.t = "number" -> NumToString(v)
    [] v.t = "undefined" -> "undefined"
    [] v.t = "null" -> "null"
    [] v.t = "array" -> "[array]"
    [] OTHER -> "[object Object]"

RECURSIVE Pad(_)
Pad(n) == IF n = 0 THEN "" ELSE " " \o Pad(n - 1)

RECURSIVE Ser(_, _), SerItems(_, _, _), SerProps(_, _, _, _)
\* JSON text of v at indentation ind, as JSON.stringify(v, null, 2) lays it out
\* (the strings of the model contain no character that needs escaping)
Ser(v, ind) ==
  CASE v.t = "string" -> "\"" \o v.s \o "\""
    [] v.t = "number" -> NumToString(v)
    [] v.t = "null" -> "null"
    [] v.t = "undefined" -> "null"
    [] v.t = "array" ->
         IF Len(v.a) = 0 THEN "[]"
         ELSE "[\n" \o SerItems(v.a, 1, ind + 2) \o "\n" \o Pad(ind) \o "]"
    [] OTHER ->
         LET ks == SelectSeq(v.k, LAMBDA x : v.m[x].t # "undefined")
         IN IF Len(ks) = 0 THEN "{}"
            ELSE "{\n" \o SerProps(v, ks, 1, ind + 2) \o "\n" \o Pad(ind) \o "}"

SerItems(a, i, ind) ==
  Pad(ind) \o Ser(a[i], ind) \o
    (IF i = Len(a) THEN "" ELSE ",\n" \o SerItems(a, i + 1, ind))

SerProps(v, ks, i, ind) ==
  Pad(ind) \o "\"" \o ks[i] \o "\": " \o Ser(v.m[ks[i]], ind) \o
    (IF i = Len(ks) THEN "" ELSE ",\n" \o SerProps(v, ks, i + 1, ind))

\* JSON.stringify(v, null, 2): undefined for undefined, else the JSON text
JSONStringify(v) == IF v.t = "undefined" THEN Undefined ELSE Str(Ser(v, 0))

\* s contains sub as a substring
Contains(s, sub) ==
  \/ Len(sub) = 0
  \/ \E i \in 1..(Len(s) - Len(sub) + 1) : SubSeq(s, i, i + Len(sub) - 1) = sub

---------------------------------------------------------------------------
\* Inputs: tool names, argument mappings, credentials and remote replies

\* marks a key that the arguments mapping does not have
Absent == [t |-> "absent"]

ArgKeys == <<"list_id", "name", "description", "assignees">>

\* the arguments object holding the keys whose value is not Absent
MkArgs(lid, nm, d, as) ==
  LET val(key) == CASE key = "list_id" -> lid
                    [] key = "name" -> nm
                    [] key = "description" -> d
                    [] OTHER -> as
      ks == SelectSeq(ArgKeys, LAMBDA key : val(key) # Absent)
  IN Obj(ks, [key \in {ks[j] : j \in 1..Len(ks)} |-> val(key)])

ListIdVals == {Absent, Str(""), Str("L1"), Num(7, 0), Null}
NameVals == {Absent, Str(""), Str("T"), Num(7, 0)}
DescVals == {Absent, Str(""), Str("D"), Num(7, 0), Null}
AssigneeVals ==
  {Absent, Null, Str("1"), Arr(<<>>), Arr(<<Num(1, 0)>>),
   Arr(<<Num(1, 0), Num(1, 5)>>), Arr(<<Num(1, 0), Str("x")>>)}

\* request.params.arguments of a create_task call: absent, or any mapping
CreateArgs ==
  {Undefined} \cup
  {MkArgs(lid, nm, d, as) :
     lid \in ListIdVals, nm \in NameVals, d \in DescVals, as \in AssigneeVals}

\* request.params.arguments of the other calls, which read list_id at most
OtherArgs ==
  {Undefined} \cup
  {MkArgs(lid, nm, Absent, as) :
     lid \in ListIdVals, nm \in {Absent, Str("T")}, as \in {Absent, Arr(<<Num(1, 0)>>)}}

UnknownToolNames == {"delete_task", "list_task", ""}

\* process.env.CLICKUP_API_KEY after dotenv.config
ApiKeyVals == {Undefined, Str(""), Str("pk_secret")}

TaskA == Obj(<<"id", "name">>, [id |-> Str("1"), name |-> Str("A")])
TaskB == Obj(<<"id", "name">>, [id |-> Str("2"), name |-> Str("B")])
TasksBody(ts) == Obj(<<"tasks">>, [tasks |-> Arr(ts)])
ErrBody(e) == Obj(<<"err", "ECODE">>, [err |-> e, ECODE |-> Str("OAUTH_023")])

\* bodies the remote API may answer with
RemoteData ==
  {TasksBody(<<>>), TasksBody(<<TaskA>>), TasksBody(<<TaskA, TaskB>>), TaskA,
   EmptyObj, Null, Str("Not Found"),
   ErrBody(Str("List not found")), ErrBody(Str("")), ErrBody(Num(5, 0))}

StatusCodes == {200, 404, 500}

\* how the HTTP exchange of one request ends: no response at all, or a
\* response with a status and a parsed body
RemoteReplies ==
  {[kind |-> "network", status |-> 0, data |-> Undefined]} \cup
  {[kind |-> "http", status |-> st, data |-> d] : st \in StatusCodes, d \in RemoteData}

---------------------------------------------------------------------------
\* The axios client (clickupApi)

BaseURL == "https://api.clickup.com/api/v2"

\* the request clickupApi.get / clickupApi.post sends
HttpRequest(method, url, body) ==
  [method |-> method, baseURL |-> BaseURL, url |-> url, body |-> body,
   headers |-> [Authorization |-> "CLICKUP_API_KEY", ContentType |-> "application/json"]]

\* axios resolves on a 2xx status and rejects otherwise
Resolves(r) == r.kind = "http" /\ r.status >= 200 /\ r.status < 300

\* the AxiosError a rejected request throws
AxiosError(r) ==
  [isAxiosError |-> TRUE,
   response |-> IF r.kind = "http"
                THEN Obj(<<"status", "data">>, [status |-> Num(r.status, 0), data |-> r.data])
                ELSE Undefined,
   message |-> IF r.kind = "http"
               THEN "Request failed with status code " \o ToString(r.status)
               ELSE "Network Error"]

\* the TypeError of reading a property of null
NullReadError(prop) ==
  [isAxiosError |-> FALSE, response |-> Undefined,
   message |-> "TypeError: Cannot read properties of null (reading '" \o prop \o "')"]

---------------------------------------------------------------------------
\* Outcomes of a request

NoOutcome == [kind |-> "none"]
\* a thrown McpError
McpError(code, message) == [kind |-> "fault", code |-> code, message |-> message]
TextContent(text) == [type |-> "text", text |-> text]
\* a returned tool result; isError FALSE stands for a result without the key
ToolResult(content, isError) == [kind |-> "result", content |-> content, isError |-> isError]

\* the catalog the list-tools handler returns
ToolCatalog ==
  << [name |-> "list_tasks",
      properties |-> [list_id |-> "string"],
      required |-> <<"list_id">>],
     [name |-> "create_task",
      properties |-> [list_id |-> "string", name |-> "string",
                      description |-> "string", assignees |-> "array of integer"],
      required |-> <<"list_id", "name">>] >>

---------------------------------------------------------------------------
\* The pure parts of the tool handlers

\* the check on the credential at module load
KeyMissing_noEmpty(key) == key.t = "undefined"
KeyMissing(key) == ~Truthy(key)

\* which case of the switch a tool name selects
ToolCase_fallthrough(name) ==
  IF name = "create_task" THEN "create_task" ELSE "list_tasks"
ToolCase(name) ==
  IF name \in {"list_tasks", "create_task"} THEN name ELSE "default"

\* list_tasks: the fault of the argument check, NoOutcome when it passes
ListTasksFault_undefinedOnly(listId) ==
  IF listId.t = "undefined"
  THEN McpError("InvalidParams", "list_id (string) is required")
  ELSE NoOutcome
ListTasksFault(listId) ==
  IF TypeOf(listId) # "string"
  THEN McpError("InvalidParams", "list_id (string) is required")
  ELSE NoOutcome

\* create_task: the fault of the first argument check that fails
CreateTaskFault_noDescription(listId, taskName, description, assignees) ==
  IF TypeOf(listId) # "string" \/ ~Truthy(listId)
  THEN McpError("InvalidParams", "list_id (string) is required")
  ELSE IF TypeOf(taskName) # "string" \/ ~Truthy(taskName)
  THEN McpError("InvalidParams", "name (string) is required")
  ELSE IF assignees # Undefined /\
          (~IsArray(assignees) \/
           ~(\A j \in 1..Len(assignees.a) : TypeOf(assignees.a[j]) = "number"))
  THEN McpError("InvalidParams", "assignees must be an array of numbers if provided")
  ELSE NoOutcome
CreateTaskFault(listId, taskName, description, assignees) ==
  IF TypeOf(listId) # "string" \/ ~Truthy(listId)
  THEN McpError("InvalidParams", "list_id (string) is required")
  ELSE IF TypeOf(taskName) # "string" \/ ~Truthy(taskName)
  THEN McpError("InvalidParams", "name (string) is required")
  ELSE IF description # Undefined /\ TypeOf(description) # "string"
  THEN McpError("InvalidParams", "description must be a string if provided")
  ELSE IF assignees # Undefined /\
          (~IsArray(assignees) \/
           ~(\A j \in 1..Len(assignees.a) : TypeOf(assignees.a[j]) = "number"))
  THEN McpError("InvalidParams", "assignees must be an array of numbers if provided")
  ELSE NoOutcome

\* the path of both requests
TaskUrl(listId) == "/list/" \o ToJSString(listId) \o "/task"

\* create_task: the JSON body of the POST
CreateTaskPayload_defaultDescription(taskName, description, assignees) ==
  LET val(key) == CASE key = "name" -> taskName
                    [] key = "description" ->
                         IF description = Undefined THEN Str("") ELSE description
                    [] OTHER -> assignees
      ks == SelectSeq(<<"name", "description", "assignees">>,
                      LAMBDA key : key # "assignees" \/ Truthy(val(key)))
  IN Obj(ks, [key \in {ks[j] : j \in 1..Len(ks)} |-> val(key)])
CreateTaskPayload(taskName, description, assignees) ==
  LET val(key) == CASE key = "name" -> taskName
                    [] key = "description" -> description
                    [] OTHER -> assignees
      ks == SelectSeq(<<"name", "description", "assignees">>,
                      LAMBDA key : key = "name" \/ Truthy(val(key)))
  IN Obj(ks, [key \in {ks[j] : j \in 1..Len(ks)} |-> val(key)])

\* the request each tool sends
ListTasksRequest(listId) == HttpRequest("GET", TaskUrl(listId), Undefined)
CreateTaskRequest(listId, payload) == HttpRequest("POST", TaskUrl(listId), payload)

\* the message of a caught error
ErrorMessage_transportOnly(error) ==
  IF error.isAxiosError THEN Str(error.message) ELSE Str(error.message)
ErrorMessage(error) ==
  IF error.isAxiosError
  THEN LET err == OptGet(OptGet(error.response, "data"), "err")
       IN IF Truthy(err) THEN err ELSE Str(error.message)
  ELSE Str(error.message)

\* the result the catch blocks return
ErrorResult(prefix, error) ==
  ToolResult(<<TextContent(Str(prefix \o ToJSString(ErrorMessage(error))))>>, TRUE)

\* the requests a call has issued once its HTTP request has settled with
\* reply r and the handler has returned: neither the success path nor the
\* catch block issues another one
RequestsAfterSettle_retry(reqs, r) ==
  IF Resolves(r) THEN reqs ELSE Append(reqs, reqs[1])
RequestsAfterSettle(reqs, r) == reqs

\* list_tasks: the text of the success result (reading .tasks of null throws)
ListTasksText_wholeBody(data) == JSONStringify(data)
ListTasksText(data) == JSONStringify(OptGet(data, "tasks"))

\* list_tasks: the outcome once the GET has settled with reply r
ListTasksOutcome(r) ==
  IF ~Resolves(r) THEN ErrorResult("Error listing tasks: ", AxiosError(r))
  ELSE IF r.data.t \in {"null", "undefined"}
  THEN ErrorResult("Error listing tasks: ", NullReadError("tasks"))
  ELSE ToolResult(<<TextContent(ListTasksText(r.data))>>, FALSE)

\* create_task: the outcome once the POST has settled with reply r
CreateTaskOutcome(r) ==
  IF ~Resolves(r) THEN ErrorResult("Error creating task: ", AxiosError(r))
  ELSE ToolResult(<<TextContent(JSONStringify(r.data))>>, FALSE)

---------------------------------------------------------------------------
\* The process

VARIABLES
  apiKey,     \* process.env.CLICKUP_API_KEY
  phase,      \* "Uninitialized", "Serving" or "Aborted"
  connected,  \* server.connect(transport) has completed
  exit,       \* whether the process has exited, and its exit status
  method,     \* the current request: "" (none yet), "tools/list" or "tools/call"
  pc,         \* the current request: "idle", "awaiting" (suspended at the HTTP call) or "done"
  toolName,   \* request.params.name of the current tool call
  args,       \* request.params.arguments of the current tool call
  requests,   \* the HTTP requests the current request has issued, in order
  remote,     \* the reply the HTTP request of the current tool call settled with
  outcome,    \* what the current request ended with
  handled,    \* number of requests whose handler has been entered
  httpTotal   \* number of HTTP requests issued since startup

vars == <<apiKey, phase, connected, exit, method, pc, toolName, args, requests, remote,
          outcome, handled, httpTotal>>

procVars == <<apiKey, phase, connected, exit>>

NoReply == [kind |-> "none"]
Running == [exited |-> FALSE, code |-> 0]
Exited(code) == [exited |-> TRUE, code |-> code]

Init ==
  /\ apiKey \in ApiKeyVals
  /\ phase = "Uninitialized"
  /\ connected = FALSE
  /\ exit = Running
  /\ method = ""
  /\ pc = "idle"
  /\ toolName = ""
  /\ args = Undefined
  /\ requests = <<>>
  /\ remote = NoReply
  /\ outcome = NoOutcome
  /\ handled = 0
  /\ httpTotal = 0

\* module load with no credential: the throw at top level ends the process
\* with status 1 before the server is created
StartupAbort ==
  /\ phase = "Uninitialized"
  /\ KeyMissing(apiKey)
  /\ phase' = "Aborted"
  /\ exit' = Exited(1)
  /\ UNCHANGED <<apiKey, connected, method, pc, toolName, args, requests, remote,
                 outcome, handled, httpTotal>>

\* module load with a credential, then main(): the transport connects
StartupServe ==
  /\ phase = "Uninitialized"
  /\ ~KeyMissing(apiKey)
  /\ phase' = "Serving"
  /\ connected' = TRUE
  /\ UNCHANGED <<apiKey, exit, method, pc, toolName, args, requests, remote,
                 outcome, handled, httpTotal>>

\* module load with a credential, then main() rejects: process.exit(1)
StartupConnectFails ==
  /\ phase = "Uninitialized"
  /\ ~KeyMissing(apiKey)
  /\ phase' = "Aborted"
  /\ exit' = Exited(1)
  /\ UNCHANGED <<apiKey, connected, method, pc, toolName, args, requests, remote,
                 outcome, handled, httpTotal>>

\* a request can be taken when the server is connected and no handler is suspended
CanAccept == phase = "Serving" /\ connected /\ pc # "awaiting" /\ handled < MaxRequests

\* the handler of ListToolsRequestSchema
ListTools ==
  /\ CanAccept
  /\ handled' = handled + 1
  /\ method' = "tools/list"
  /\ toolName' = ""
  /\ args' = Undefined
  /\ requests' = <<>>
  /\ remote' = NoReply
  /\ outcome' = [kind |-> "tools", tools |-> ToolCatalog]
  /\ pc' = "done"
  /\ UNCHANGED <<procVars, httpTotal>>

\* the handler of CallToolRequestSchema up to its first suspension: it throws
\* the fault of the selected case, or issues the HTTP request and awaits it
CallTool(name, a) ==
  LET case == ToolCase(name)
      listId == OptGet(a, "list_id")
      taskName == OptGet(a, "name")
      description == OptGet(a, "description")
      assignees == OptGet(a, "assignees")
      fault == CASE case = "list_tasks" -> ListTasksFault(listId)
                 [] case = "create_task" ->
                      CreateTaskFault(listId, taskName, description, assignees)
                 [] OTHER -> McpError("MethodNotFound", "Unknown tool: " \o name)
      req == IF case = "list_tasks" THEN ListTasksRequest(listId)
             ELSE CreateTaskRequest(listId, CreateTaskPayload(taskName, description, assignees))
  IN /\ CanAccept
     /\ handled' = handled + 1
     /\ method' = "tools/call"
     /\ toolName' = name
     /\ args' = a
     /\ remote' = NoReply
     /\ IF fault.kind = "fault"
        THEN /\ outcome' = fault
             /\ requests' = <<>>
             /\ pc' = "done"
             /\ UNCHANGED httpTotal
        ELSE /\ outcome' = NoOutcome
             /\ requests' = <<req>>
             /\ httpTotal' = httpTotal + 1
             /\ pc' = "awaiting"
     /\ UNCHANGED procVars

CallListTasks == \E a \in OtherArgs : CallTool("list_tasks", a)
CallCreateTask == \E a \in CreateArgs : CallTool("create_task", a)
CallUnknownTool == \E name \in UnknownToolNames : \E a \in OtherArgs : CallTool(name, a)

\* the HTTP request settles with reply r and the suspended handler runs to its end
Settle(r) ==
  /\ phase = "Serving"
  /\ pc = "awaiting"
  /\ remote' = r
  /\ outcome' = IF ToolCase(toolName) = "list_tasks" THEN ListTasksOutcome(r)
                ELSE CreateTaskOutcome(r)
  /\ requests' = RequestsAfterSettle(requests, r)
  /\ httpTotal' = httpTotal + (Len(requests') - Len(requests))
  /\ pc' = "done"
  /\ UNCHANGED <<procVars, method, toolName, args, handled>>

ListTasksSettles == \E r \in RemoteReplies : ToolCase(toolName) = "list_tasks" /\ Settle(r)
CreateTaskSettles == \E r \in RemoteReplies : ToolCase(toolName) = "create_task" /\ Settle(r)

Next ==
  \/ StartupAbort
  \/ StartupServe
  \/ StartupConnectFails
  \/ ListTools
  \/ CallListTasks
  \/ CallCreateTask
  \/ CallUnknownTool
  \/ ListTasksSettles
  \/ CreateTaskSettles

Spec == Init /\ [][Next]_vars

---------------------------------------------------------------------------
\* Properties

\* the arguments of the current tool call, as the handler reads them
ArgListId == OptGet(args, "list_id")
ArgName == OptGet(args, "name")
ArgDescription == OptGet(args, "description")
ArgAssignees == OptGet(args, "assignees")

InCall(name) == method = "tools/call" /\ toolName = name /\ pc # "idle"
Faulted(code) == pc = "done" /\ outcome.kind = "fault" /\ outcome.code = code
NoRequestIssued == requests = <<>>
\* a returned result with the error flag set and one text entry holding a string
SoftError ==
  /\ pc = "done"
  /\ outcome.kind = "result"
  /\ outcome.isError
  /\ Len(outcome.content) = 1
  /\ outcome.content[1].type = "text"
  /\ outcome.content[1].text.t = "string"
\* a returned result with the error flag unset and one text entry holding text
SuccessWithText(text) ==
  /\ pc = "done"
  /\ outcome.kind = "result"
  /\ ~outcome.isError
  /\ outcome.content = <<[type |-> "text", text |-> text]>>
Keys(o) == {o.k[j] : j \in 1..Len(o.k)}
IsInteger(v) == v.t = "number" /\ v.f = 0
IsString(v) == v.t = "string"
IsNonEmptyString(v) == v.t = "string" /\ v.s # ""

\* C1: a list_tasks call whose list_id is missing or not a string (also when
\* the arguments mapping is absent) ends in the InvalidParams fault, and at no
\* point of the call is an HTTP request issued.
C1_ListTasksBadListId ==
  (InCall("list_tasks") /\ ~IsString(ArgListId))
    => (Faulted("InvalidParams") /\ NoRequestIssued)

C1_Witness ==
  /\ InCall("list_tasks") /\ ArgListId = Num(7, 0)
  /\ Faulted("InvalidParams") /\ NoRequestIssued /\ httpTotal = 0

\* C2: a create_task call with valid list_id and name whose assignees array
\* holds an element that is not an integer ends in the InvalidParams fault and
\* issues no HTTP request.
C2_NonIntegerAssignees ==
  (/\ InCall("create_task")
   /\ IsNonEmptyString(ArgListId) /\ IsNonEmptyString(ArgName)
   /\ ArgDescription = Undefined
   /\ IsArray(ArgAssignees)
   /\ \E j \in 1..Len(ArgAssignees.a) : ~IsInteger(ArgAssignees.a[j]))
    => (Faulted("InvalidParams") /\ NoRequestIssued)

\* the arguments mapping holds list_id and name, both strings, and nothing else
OnlyListIdAndName ==
  /\ args.t = "object" /\ Keys(args) = {"list_id", "name"}
  /\ IsString(ArgListId) /\ IsString(ArgName)

\* C3 as stated: a create_task call with only list_id and name forwards a POST
\* whose body holds exactly the fields list_id and name.
C3_BodyHasListIdAndName ==
  (InCall("create_task") /\ OnlyListIdAndName /\ requests # <<>>)
    => (/\ requests[1].method = "POST"
        /\ Keys(requests[1].body) = {"list_id", "name"})

\* C3 amended: a create_task call with only list_id and name forwards a POST
\* whose body holds exactly one field, name, with the given name; list_id is
\* carried by the request path; the call forwards the request whenever both
\* are non-empty.
C3_BodyHasOnlyName ==
  (InCall("create_task") /\ OnlyListIdAndName)
    => /\ \A j \in 1..Len(requests) :
            /\ requests[j].method = "POST"
            /\ requests[j].url = "/list/" \o ArgListId.s \o "/task"
            /\ Keys(requests[j].body) = {"name"}
            /\ requests[j].body.m["name"] = ArgName
       /\ (IsNonEmptyString(ArgListId) /\ IsNonEmptyString(ArgName)) => Len(requests) = 1

C3_Witness ==
  /\ InCall("create_task") /\ OnlyListIdAndName
  /\ pc = "awaiting" /\ Len(requests) = 1
  /\ requests[1].body = Obj(<<"name">>, [name |-> Str("T")])

\* C4: a call of a tool that is neither list_tasks nor create_task ends,
\* whatever its arguments, in the MethodNotFound fault: never in a returned
\* result, and no HTTP request is issued.
C4_UnknownToolFaults ==
  (method = "tools/call" /\ pc # "idle" /\ toolName \notin {"list_tasks", "create_task"})
    => (Faulted("MethodNotFound") /\ outcome.kind # "result" /\ NoRequestIssued)

C4_Witness ==
  /\ method = "tools/call" /\ toolName = "delete_task" /\ IsString(ArgListId)
  /\ Faulted("MethodNotFound") /\ NoRequestIssued

\* the HTTP call of the current tool call failed: no response, a status that
\* is not 2xx, or for list_tasks a 2xx body without a tasks array
RemoteCallFailed ==
  /\ remote.kind # "none"
  /\ \/ remote.kind = "network"
     \/ remote.status < 200 \/ remote.status >= 300
     \/ toolName = "list_tasks" /\ OptGet(remote.data, "tasks").t # "array"

\* C5: when the HTTP call of a validated list_tasks or create_task call fails
\* (network failure, non-2xx status, malformed body), the call returns a
\* result with the error flag set and one text entry.
C5_RemoteFailureIsSoftError ==
  (method = "tools/call" /\ pc = "done" /\ RemoteCallFailed) => SoftError

\* the HTTP request of the current tool call was rejected by axios
RemoteRejected == method = "tools/call" /\ pc = "done" /\ remote.kind # "none" /\ ~Resolves(remote)
RemoteErr == OptGet(remote.data, "err")
TransportMessage == AxiosError(remote).message
ResultText == outcome.content[1].text.s
NotFoundCase ==
  /\ toolName = "list_tasks" /\ remote.kind = "http" /\ remote.status = 404
  /\ RemoteErr = Str("List not found")

\* C6 as stated: after a failed HTTP call the error text contains the err
\* string of the response body whenever the body carries one, and contains
\* the transport error message only when it carries none.
C6_ErrStringPreferred ==
  RemoteRejected
    => /\ SoftError
       /\ IsString(RemoteErr) => Contains(ResultText, RemoteErr.s)
       /\ Contains(ResultText, TransportMessage) => ~IsString(RemoteErr)
       /\ NotFoundCase => Contains(ResultText, "List not found")

\* C6 amended: after a failed HTTP call the error text contains the err
\* string of the response body whenever the body carries a non-empty one, and
\* contains the transport error message only when it carries no non-empty err
\* string; a 404 with body {"err": "List not found"} to list_tasks gives
\* error-flagged text containing "List not found".
C6_NonEmptyErrStringPreferred ==
  RemoteRejected
    => /\ SoftError
       /\ IsNonEmptyString(RemoteErr) => Contains(ResultText, RemoteErr.s)
       /\ Contains(ResultText, TransportMessage) => ~IsNonEmptyString(RemoteErr)
       /\ NotFoundCase => Contains(ResultText, "List not found")

C6_Witness ==
  /\ RemoteRejected /\ NotFoundCase /\ SoftError
  /\ ResultText = "Error listing tasks: List not found"

\* C7: a list_tasks call whose GET succeeds with body {tasks: T}, T an array,
\* returns a result with the error flag unset and one text entry holding the
\* pretty-printed JSON of T, not of the whole body; a create_task call whose
\* POST succeeds returns the pretty-printed JSON of the whole response body.
C7_SuccessText ==
  (method = "tools/call" /\ pc = "done" /\ remote.kind # "none" /\ Resolves(remote))
    => /\ (toolName = "list_tasks" /\ OptGet(remote.data, "tasks").t = "array")
            => /\ SuccessWithText(JSONStringify(remote.data.m["tasks"]))
               /\ outcome.content[1].text # JSONStringify(remote.data)
               /\ remote.data = TasksBody(<<TaskA>>)
                    => outcome.content[1].text.s =
                         "[\n  {\n    \"id\": \"1\",\n    \"name\": \"A\"\n  }\n]"
       /\ toolName = "create_task"
            => /\ SuccessWithText(JSONStringify(remote.data))
               /\ remote.data = TaskA
                    => outcome.content[1].text.s = "{\n  \"id\": \"1\",\n  \"name\": \"A\"\n}"

C7_Witness ==
  /\ InCall("list_tasks") /\ pc = "done" /\ remote.kind = "http" /\ remote.status = 200
  /\ remote.data = TasksBody(<<TaskA, TaskB>>)
  /\ ~outcome.isError /\ Len(outcome.content) = 1

\* C8: a tool call issues at most one HTTP request and ends in one outcome:
\* a call that passes validation issues exactly one request (GET for
\* list_tasks, POST for create_task, path /list/{list_id}/task) and none after
\* it has settled, whether it succeeded or failed; a call that ends in a
\* fault issues none.
C8_OneRequestOneOutcome ==
  /\ [](/\ Len(requests) <= 1
        /\ httpTotal <= handled
        /\ pc = "awaiting" => (Len(requests) = 1 /\ outcome.kind = "none")
        /\ (method = "tools/call" /\ pc = "done")
             => /\ outcome.kind \in {"fault", "result"}
                /\ outcome.kind = "fault" => (NoRequestIssued /\ remote.kind = "none")
                /\ outcome.kind = "result" => (Len(requests) = 1 /\ remote.kind # "none")
        /\ \A j \in 1..Len(requests) :
             /\ requests[j].url = "/list/" \o ArgListId.s \o "/task"
             /\ toolName = "list_tasks" => requests[j].method = "GET"
             /\ toolName = "create_task" => requests[j].method = "POST")
  /\ [][pc = "awaiting" => (pc' = "done" /\ requests' = requests /\ httpTotal' = httpTotal)]_vars

C8_Witness ==
  /\ InCall("create_task") /\ pc = "done" /\ remote.kind = "network"
  /\ outcome.kind = "result" /\ outcome.isError /\ Len(requests) = 1

CredentialAbsent == apiKey = Undefined \/ apiKey = Str("")

\* C9: startup goes from Uninitialized to Serving only with the credential
\* present and to Aborted when it is absent (unset or empty): the process
\* then exits with a non-zero status before the transport is connected, no
\* request is ever handled and no HTTP request is ever issued; once Serving,
\* every request outcome leaves the process Serving.
C9_Startup ==
  /\ [](/\ CredentialAbsent
             => /\ phase \in {"Uninitialized", "Aborted"}
                /\ ~connected /\ handled = 0 /\ httpTotal = 0 /\ pc = "idle"
        /\ phase = "Aborted" => (exit.exited /\ exit.code # 0)
        /\ phase = "Serving" => (connected /\ ~exit.exited)
        /\ phase # "Serving" => (handled = 0 /\ httpTotal = 0 /\ pc = "idle"))
  /\ [][/\ (phase = "Uninitialized" /\ CredentialAbsent) => phase' = "Aborted"
        /\ (phase = "Uninitialized" /\ phase' = "Serving") => ~CredentialAbsent
        /\ phase = "Serving" => phase' = "Serving"
        /\ phase = "Aborted" => phase' = "Aborted"]_vars

C9_Witness ==
  /\ apiKey = Str("") /\ phase = "Aborted" /\ exit = Exited(1)
  /\ ~connected /\ handled = 0 /\ httpTotal = 0

DescriptionOk == ArgDescription = Undefined \/ IsString(ArgDescription)
AssigneesOk ==
  \/ ArgAssignees = Undefined
  \/ IsArray(ArgAssignees) /\ \A j \in 1..Len(ArgAssignees.a) : IsInteger(ArgAssignees.a[j])

\* C10 as stated: a create_task call fails with InvalidParams and issues no
\* request if list_id or name is missing or not a string or description is
\* present and not a string; every call whose fields match their declared
\* types passes validation and reaches the HTTP call.
C10_StructuralValidation ==
  InCall("create_task")
    => /\ (~IsString(ArgListId) \/ ~IsString(ArgName) \/ ~DescriptionOk)
            => (Faulted("InvalidParams") /\ NoRequestIssued)
       /\ (IsString(ArgListId) /\ IsString(ArgName) /\ DescriptionOk /\ AssigneesOk)
            => (outcome.kind # "fault" /\ Len(requests) = 1)

\* C10 amended: a create_task call fails with InvalidParams and issues no
\* request if list_id or name is missing, not a string or the empty string,
\* or description is present and not a string; every call whose list_id and
\* name are non-empty strings and whose description and assignees, when
\* present, are a string and an array of integers passes validation and
\* reaches the HTTP call.
C10_NonEmptyValidation ==
  InCall("create_task")
    => /\ (~IsNonEmptyString(ArgListId) \/ ~IsNonEmptyString(ArgName) \/ ~DescriptionOk)
            => (Faulted("InvalidParams") /\ NoRequestIssued)
       /\ (IsNonEmptyString(ArgListId) /\ IsNonEmptyString(ArgName)
           /\ DescriptionOk /\ AssigneesOk)
            => (outcome.kind # "fault" /\ Len(requests) = 1)

C10_Witness ==
  /\ InCall("create_task") /\ pc = "awaiting" /\ Len(requests) = 1
  /\ ArgDescription = Str("D") /\ ArgAssignees = Arr(<<Num(1, 0)>>)
  /\ requests[1].body.m["description"] = Str("D")

====
